---- MODULE Spec2Model ----
(***************************************************************************)
(* Tradesim: the Home component (WebSocket order-book feed and the         *)
(* simulation handler) and the SimulationService latency bookkeeping.      *)
(*                                                                         *)
(* JavaScript values are records that hold exactly the properties the      *)
(* value has: a property the value lacks is a field the record lacks, so   *)
(* "x.total is undefined" is  "total" \notin DOMAIN x.  A two-element      *)
(* array [p, s] is the record [i0 |-> p, i1 |-> s] of its index            *)
(* properties.  A top-level value carries a tag naming its JavaScript      *)
(* type (null, number, object, error).                                     *)
(***************************************************************************)
EXTENDS Integers, Sequences, FiniteSets, TLC

(* ----------------------------- bounds ---------------------------------- *)
\* Longest sequence of feed messages the transport delivers.
MaxMessages == 3
\* Most invocations of handleRunSimulation in one behaviour.
MaxRuns == 2
\* Most invocations of runSimulation in one behaviour.
MaxCalls == 2
\* Most recordUIUpdateLatency calls in one behaviour.
MaxUISamples == 1
\* Longest sample array handed to calculateAverage on its own.
MaxSamples == 3

VARIABLES
  \* --- Home component, WebSocket effect (home.tsx 17-57) ---
  mounted,          \* the component is mounted (effect ran, cleanup not yet)
  wsState,          \* ws.readyState
  isConnected,      \* useState(false)
  orderbookData,    \* useState<any>(null)
  wsCount,          \* number of WebSocket objects constructed
  closeCalls,       \* number of ws.close() calls issued
  consoleErrors,    \* number of console.error calls of the socket handlers
  teardownFrom,     \* ws.readyState at the moment the cleanup ran
  delivered,        \* message texts the transport delivered, in order
  published,        \* values handed to setOrderbookData, in order
  \* --- Home component, handleRunSimulation (home.tsx 20-22, 60-89) ---
  isLoading,        \* useState(false)
  simulationResult, \* useState<SimulationResult | null>(null)
  pendingRuns,      \* invocations suspended at the await, oldest first
  finishedRuns,     \* invocations that ran to their end, in order
  \* --- SimulationService (part_001 48-149) ---
  performanceMetrics, \* the three latency sample arrays
  calls,              \* the runSimulation invocations and where each stands
  sampleOwner,        \* for each sample of a runSimulation array, its call
  \* --- a caller of the SimulationService readers (part_001 121-148) ---
  averagesRead,     \* what getAverageMetrics returned to the running caller
  metricsRead,      \* what the latest getPerformanceMetrics call returned
  \* --- TradeParametersForm (navbar.tsx 103-130, 299) ---
  formValues,       \* the values the form fields hold
  formIsLoading,    \* the form's own useState(false)
  formPending       \* handleSubmit invocations suspended at their await

feedVars == <<mounted, wsState, isConnected, orderbookData, wsCount,
              closeCalls, consoleErrors, teardownFrom, delivered, published>>

simVars == <<isLoading, simulationResult, pendingRuns, finishedRuns>>

svcVars == <<performanceMetrics, calls, sampleOwner>>

callerVars == <<averagesRead, metricsRead>>

formVars == <<formValues, formIsLoading, formPending>>

vars == <<mounted, wsState, isConnected, orderbookData, wsCount,
          closeCalls, consoleErrors, teardownFrom, delivered, published,
          isLoading, simulationResult, pendingRuns, finishedRuns,
          performanceMetrics, calls, sampleOwner,
          averagesRead, metricsRead,
          formValues, formIsLoading, formPending>>

(* ------------------------- JavaScript values --------------------------- *)
JSNull == [tag |-> "null"]

\* A raw feed level [price, size] as the exchange sends it (an array).
Pair(p, s) == [i0 |-> p, i1 |-> s]

\* A level in the shape OrderbookEntry declares.
Entry(p, s, t, pct) == [price |-> p, size |-> s, total |-> t, percentage |-> pct]

(* The message texts the transport may deliver.  The feed is an external   *)
(* party: it may send the raw [[price,size],...] shape, objects that       *)
(* already look like OrderbookData (with right or wrong totals), a book    *)
(* with an empty side, JSON that is no object at all, or text that is not  *)
(* JSON.                                                                   *)
TextPairs     == "{\"bids\":[[100,1],[99,2]],\"asks\":[[101,1],[102,2]]}"
TextEntries   == "{\"bids\":[{\"price\":100,\"size\":1,\"total\":1,\"percentage\":33},{\"price\":99,\"size\":2,\"total\":3,\"percentage\":100}],\"asks\":[{\"price\":101,\"size\":3,\"total\":3,\"percentage\":100}],\"spread\":1,\"spreadPercentage\":1,\"timestamp\":7}"
TextBadTotals == "{\"bids\":[{\"price\":100,\"size\":1,\"total\":5,\"percentage\":100},{\"price\":99,\"size\":2,\"total\":2,\"percentage\":40}],\"asks\":[{\"price\":101,\"size\":3,\"total\":3,\"percentage\":60}],\"spread\":1,\"spreadPercentage\":1,\"timestamp\":8}"
TextEmptyBids == "{\"bids\":[],\"asks\":[[101,1]]}"
TextNumber    == "42"
TextTruncated == "{\"bids\":[[100,1]"
TextPing      == "ping"

Texts == {TextPairs, TextEntries, TextBadTotals, TextEmptyBids, TextNumber,
          TextTruncated, TextPing}

(* JSON.parse: the value a text denotes, or a SyntaxError.                 *)
JSONparse(text) ==
  CASE text = TextPairs ->
         [ok |-> TRUE,
          value |-> [tag |-> "object",
                     bids |-> <<Pair(100, 1), Pair(99, 2)>>,
                     asks |-> <<Pair(101, 1), Pair(102, 2)>>]]
    [] text = TextEntries ->
         [ok |-> TRUE,
          value |-> [tag |-> "object",
                     bids |-> <<Entry(100, 1, 1, 33), Entry(99, 2, 3, 100)>>,
                     asks |-> <<Entry(101, 3, 3, 100)>>,
                     spread |-> 1, spreadPercentage |-> 1, timestamp |-> 7]]
    [] text = TextBadTotals ->
         [ok |-> TRUE,
          value |-> [tag |-> "object",
                     bids |-> <<Entry(100, 1, 5, 100), Entry(99, 2, 2, 40)>>,
                     asks |-> <<Entry(101, 3, 3, 60)>>,
                     spread |-> 1, spreadPercentage |-> 1, timestamp |-> 8]]
    [] text = TextEmptyBids ->
         [ok |-> TRUE,
          value |-> [tag |-> "object",
                     bids |-> <<>>,
                     asks |-> <<Pair(101, 1)>>]]
    [] text = TextNumber ->
         [ok |-> TRUE, value |-> [tag |-> "number", num |-> 42]]
    [] OTHER ->
         [ok |-> FALSE, error |-> "SyntaxError"]

(* ------------------- Home: the WebSocket effect ------------------------ *)
(* Each handler states what it does to the component's state and to the    *)
(* socket; a handler that never touches the socket leaves wsState,         *)
(* wsCount and closeCalls as the browser set them.                         *)

\* Faulty variant of ws.onopen: the flag is not raised.
ws_onopen_Forgetful ==
  /\ isConnected' = isConnected
  /\ wsState' = "OPEN"

\* ws.onopen: runs with readyState OPEN.
ws_onopen ==
  /\ isConnected' = TRUE
  /\ wsState' = "OPEN"

\* Faulty variant of ws.onmessage: a parse failure tears the socket down.
ws_onmessage_CloseOnBad(data) ==
  LET parsed == JSONparse(data) IN
  IF parsed.ok
    THEN /\ orderbookData' = parsed.value
         /\ published' = Append(published, parsed.value)
         /\ UNCHANGED <<isConnected, wsState, closeCalls, consoleErrors>>
    ELSE /\ consoleErrors' = consoleErrors + 1
         /\ isConnected' = FALSE
         /\ wsState' = "CLOSING"
         /\ closeCalls' = closeCalls + 1
         /\ UNCHANGED <<orderbookData, published>>

\* Faulty variant of ws.onmessage: a message equal to the current snapshot
\* is not published again.
ws_onmessage_Coalesce(data) ==
  LET parsed == JSONparse(data) IN
  IF parsed.ok /\ parsed.value # orderbookData
    THEN /\ orderbookData' = parsed.value
         /\ published' = Append(published, parsed.value)
         /\ UNCHANGED <<isConnected, wsState, closeCalls, consoleErrors>>
    ELSE /\ consoleErrors' = IF parsed.ok THEN consoleErrors
                             ELSE consoleErrors + 1
         /\ UNCHANGED <<orderbookData, published, isConnected, wsState,
                        closeCalls>>

\* ws.onmessage: parse, publish on success; log and drop on failure.
ws_onmessage(data) ==
  LET parsed == JSONparse(data) IN
  IF parsed.ok
    THEN /\ orderbookData' = parsed.value
         /\ published' = Append(published, parsed.value)
         /\ UNCHANGED <<isConnected, wsState, closeCalls, consoleErrors>>
    ELSE /\ consoleErrors' = consoleErrors + 1
         /\ UNCHANGED <<orderbookData, published, isConnected, wsState,
                        closeCalls>>

\* ws.onerror: runs with readyState CLOSED.
ws_onerror ==
  /\ consoleErrors' = consoleErrors + 1
  /\ isConnected' = FALSE

\* Faulty variant of ws.onclose: a new socket replaces the closed one.
ws_onclose_Reconnect ==
  /\ isConnected' = FALSE
  /\ wsState' = "CONNECTING"
  /\ wsCount' = wsCount + 1

\* Faulty variant of ws.onclose: the flag is left as it was.
ws_onclose_KeepsFlag ==
  /\ isConnected' = isConnected
  /\ wsState' = "CLOSED"
  /\ wsCount' = wsCount

\* ws.onclose: runs with readyState CLOSED; constructs no new socket.
ws_onclose ==
  /\ isConnected' = FALSE
  /\ wsState' = "CLOSED"
  /\ wsCount' = wsCount

\* WebSocket.close(): starts the closing handshake unless the socket is
\* already closing or closed.
ws_close ==
  /\ closeCalls' = closeCalls + 1
  /\ wsState' = IF wsState \in {"CONNECTING", "OPEN"} THEN "CLOSING"
                ELSE wsState

\* Faulty variant of the cleanup: close only an open socket.
EffectCleanup_OnlyIfOpen ==
  IF wsState = "OPEN" THEN ws_close ELSE UNCHANGED <<closeCalls, wsState>>

\* The cleanup function the effect returns.
EffectCleanup ==
  ws_close

(* State after the first render and the effect: one socket, connecting.    *)
FeedInit ==
  /\ mounted = TRUE
  /\ wsState = "CONNECTING"
  /\ isConnected = FALSE
  /\ orderbookData = JSNull
  /\ wsCount = 1
  /\ closeCalls = 0
  /\ consoleErrors = 0
  /\ teardownFrom = "none"
  /\ delivered = <<>>
  /\ published = <<>>

\* The connection is established: readyState becomes OPEN, open fires.
WsOpen ==
  /\ wsState = "CONNECTING"
  /\ ws_onopen
  /\ UNCHANGED <<mounted, orderbookData, wsCount, closeCalls, consoleErrors,
                 teardownFrom,
                 delivered, published>>
  /\ UNCHANGED <<simVars, svcVars, callerVars, formVars>>

\* The transport delivers one message: message fires only while OPEN.
WsMessage ==
  /\ wsState = "OPEN"
  /\ Len(delivered) < MaxMessages
  /\ \E text \in Texts :
       /\ delivered' = Append(delivered, text)
       /\ ws_onmessage(text)
  /\ UNCHANGED <<mounted, wsCount, teardownFrom>>
  /\ UNCHANGED <<simVars, svcVars, callerVars, formVars>>

\* The server starts the closing handshake: readyState becomes CLOSING and
\* no event fires until the handshake ends.
WsServerClosing ==
  /\ wsState = "OPEN"
  /\ wsState' = "CLOSING"
  /\ UNCHANGED <<mounted, isConnected, orderbookData, wsCount, closeCalls,
                 consoleErrors,
                 teardownFrom, delivered, published>>
  /\ UNCHANGED <<simVars, svcVars, callerVars, formVars>>

\* The connection fails: readyState becomes CLOSED, error fires, then close.
WsError ==
  /\ wsState # "CLOSED"
  /\ ws_onerror
  /\ ws_onclose
  /\ UNCHANGED <<mounted, orderbookData, closeCalls, teardownFrom, delivered,
                 published>>
  /\ UNCHANGED <<simVars, svcVars, callerVars, formVars>>

\* The connection closes cleanly: readyState becomes CLOSED, close fires.
WsClose ==
  /\ wsState # "CLOSED"
  /\ ws_onclose
  /\ UNCHANGED <<mounted, orderbookData, closeCalls, consoleErrors,
                 teardownFrom, delivered,
                 published>>
  /\ UNCHANGED <<simVars, svcVars, callerVars, formVars>>

\* The component is disposed: React runs the effect's cleanup, once.
Unmount ==
  /\ mounted
  /\ mounted' = FALSE
  /\ teardownFrom' = wsState
  /\ EffectCleanup
  /\ UNCHANGED <<isConnected, consoleErrors, orderbookData, wsCount, delivered, published>>
  /\ UNCHANGED <<simVars, svcVars, callerVars, formVars>>

(* ------------------- OrderbookDisplay: depth bars ---------------------- *)
(* JavaScript numbers the depth computation can yield: a finite quotient   *)
(* num/den (den > 0), NaN, or Infinity.                                    *)
NaN == [kind |-> "NaN"]
PosInfinity == [kind |-> "Infinity"]
Finite(n, d) == [kind |-> "finite", num |-> n, den |-> d]

\* Array.isArray(data.bids), Array.isArray(data.asks)
IsArrayProp(data, name) == data.tag = "object" /\ name \in DOMAIN data

\* The levels data?.bids?.map / data?.asks?.map iterate over.
MappedLevels(data, name) == IF IsArrayProp(data, name) THEN data[name] ELSE <<>>

RECURSIVE MaxOfTotals(_)
MaxOfTotals(levels) ==
  IF Len(levels) = 1 THEN Head(levels).total
  ELSE LET rest == MaxOfTotals(Tail(levels)) IN
       IF Head(levels).total > rest THEN Head(levels).total ELSE rest

\* Math.max(...totals): NaN as soon as one argument is undefined.
MathMax(levels) ==
  IF \E i \in DOMAIN levels : "total" \notin DOMAIN levels[i]
    THEN NaN
    ELSE Finite(MaxOfTotals(levels), 1)

\* Lines 333-343: the largest total of both sides, 0 unless both sides are
\* non-empty arrays.
maxTotal(data) ==
  IF /\ data.tag # "null"
     /\ IsArrayProp(data, "bids")
     /\ IsArrayProp(data, "asks")
     /\ Len(data.bids) > 0
     /\ Len(data.asks) > 0
    THEN MathMax(data.bids \o data.asks)
    ELSE Finite(0, 1)

\* Lines 490 and 507: (level.total / maxTotal) * 100, totals being
\* non-negative.
BarWidth(level, max) ==
  IF "total" \notin DOMAIN level \/ max.kind = "NaN"
    THEN NaN
    ELSE IF max.num = 0
           THEN (IF level.total = 0 THEN NaN ELSE PosInfinity)
           ELSE Finite(level.total * 100, max.num)

\* Lines 478-515: the widths of the bid bars, then of the ask bars.
BarWidths(data) ==
  LET levels == MappedLevels(data, "bids") \o MappedLevels(data, "asks")
  IN [i \in DOMAIN levels |-> BarWidth(levels[i], maxTotal(data))]

(* ------------------- Home: handleRunSimulation ------------------------- *)
(* The handler takes `parameters: any`.  The values tried are the two      *)
(* objects the form can produce and null, for which parameters.orderSize   *)
(* throws a TypeError inside the try block.                                *)
ParamsStandard == [tag |-> "object", asset |-> "BTC-USDT-SWAP", orderSize |-> 1,
                   feeTier |-> "standard", executionStrategy |-> "market"]
ParamsVip      == [tag |-> "object", asset |-> "BTC-USDT-SWAP", orderSize |-> 4,
                   feeTier |-> "vip", executionStrategy |-> "twap"]

ParameterValues == {ParamsStandard, ParamsVip, JSNull}

\* Math.random() in thousandths: a value of [0, 1).
RandomDraws == {0, 500}

(* The mock result of lines 71-81.  Amounts are in millionths so that the  *)
(* products stay integral: fees = orderSize * 0.001 * (vip ? 0.5 : 1).     *)
MockResult(parameters, r) ==
  [tag |-> "object",
   slippage              |-> r[1] * 500,
   marketImpact          |-> r[2] * 800,
   fees                  |-> parameters.orderSize
                               * (IF parameters.feeTier = "vip" THEN 500 ELSE 1000),
   netTransactionCost    |-> r[3] * parameters.orderSize * 20,
   processingLatency     |-> r[4] * 100000 + 50000000,
   makerTakerProbability |-> r[5] * 1000]

SimInit ==
  /\ isLoading = FALSE
  /\ simulationResult = JSNull
  /\ pendingRuns = <<>>
  /\ finishedRuns = <<>>

\* Lines 61-68: setIsLoading(true), then suspend on the one-second timer.
\* resultAtStart and finishedAtStart note what the run saw when it started.
HandleRunSimulationStart ==
  /\ Len(pendingRuns) + Len(finishedRuns) < MaxRuns
  /\ \E parameters \in ParameterValues :
       pendingRuns' = Append(pendingRuns,
                             [parameters |-> parameters,
                              resultAtStart |-> simulationResult,
                              finishedAtStart |-> Len(finishedRuns)])
  /\ isLoading' = TRUE
  /\ UNCHANGED <<simulationResult, finishedRuns>>
  /\ UNCHANGED <<feedVars, svcVars, callerVars, formVars>>

\* Faulty variant of the catch block: the stored result is cleared.
CatchSimulationError_ClearsResult ==
  simulationResult' = JSNull

\* Lines 84-85: the catch block only logs.
CatchSimulationError ==
  simulationResult' = simulationResult

\* Faulty variant of lines 86-88: isLoading is reset after a stored result
\* only, not after a caught error.
FinallySetIsLoading_OnlyOnSuccess(outcome) ==
  isLoading' = IF outcome = "failed" THEN isLoading ELSE FALSE

\* Lines 86-88: finally { setIsLoading(false) }, whatever the outcome.
FinallySetIsLoading(outcome) ==
  isLoading' = FALSE

\* Lines 70-88: the oldest timer fires (all timers wait the same second, so
\* they fire in the order they were set); build the mock result and store
\* it, or catch the TypeError; finally setIsLoading(false).
HandleRunSimulationResume ==
  /\ pendingRuns # <<>>
  /\ LET run == Head(pendingRuns) IN
       /\ IF run.parameters.tag = "null"
            THEN /\ CatchSimulationError
                 /\ finishedRuns' = Append(finishedRuns,
                       [outcome |-> "failed",
                        resultAtStart |-> run.resultAtStart,
                        finishedAtStart |-> run.finishedAtStart,
                        resultAfter |-> simulationResult'])
            ELSE \E r \in [1..5 -> RandomDraws] :
                   /\ simulationResult' = MockResult(run.parameters, r)
                   /\ finishedRuns' = Append(finishedRuns,
                         [outcome |-> "stored",
                          resultAtStart |-> run.resultAtStart,
                          finishedAtStart |-> run.finishedAtStart,
                          resultAfter |-> simulationResult'])
       /\ pendingRuns' = Tail(pendingRuns)
       /\ FinallySetIsLoading(IF run.parameters.tag = "null"
                                THEN "failed" ELSE "stored")
  /\ UNCHANGED <<feedVars, svcVars, callerVars, formVars>>

(* ------------------------ SimulationService ---------------------------- *)
CallIds == 1..MaxCalls

\* performance.now() differences, in milliseconds.
Durations == {1, 3}

\* Durations a caller hands to recordUIUpdateLatency.
UILatencies == {2, 5}

\* The (orderbook, parameters) pairs runSimulation is called with.
SimulationInputs ==
  {<<JSONparse(TextEntries).value, ParamsStandard>>, <<JSNull, ParamsVip>>}

\* Bodies the pricing service may answer with.
BodyResult    == "{\"slippage\":12,\"marketImpact\":8,\"fees\":25,\"netTransactionCost\":105,\"processingLatency\":15,\"makerTakerProbability\":65,\"latencyMetrics\":{\"serverProcessingTime\":15,\"totalServerTime\":120}}"
BodyEmpty     == "{}"
BodyTruncated == "{\"slippage\":12,"

Bodies == {BodyResult, BodyEmpty, BodyTruncated}

\* What the awaited fetch settles with: a response or a network fault.
FetchResponses ==
  {[ok |-> TRUE, status |-> 200, statusText |-> "OK", body |-> b] : b \in Bodies}
  \cup {[ok |-> FALSE, status |-> 500, statusText |-> "Internal Server Error",
         body |-> BodyEmpty],
        [ok |-> FALSE, status |-> 404, statusText |-> "Not Found",
         body |-> BodyResult]}

FetchFaults == {[tag |-> "error", name |-> "TypeError",
                 message |-> "Failed to fetch"]}

\* response.json(): the value of the body, or a SyntaxError.
ResponseJson(body) ==
  CASE body = BodyResult ->
         [ok |-> TRUE,
          value |-> [tag |-> "object", slippage |-> 12, marketImpact |-> 8,
                     fees |-> 25, netTransactionCost |-> 105,
                     processingLatency |-> 15, makerTakerProbability |-> 65,
                     latencyMetrics |-> [serverProcessingTime |-> 15,
                                         totalServerTime |-> 120]]]
    [] body = BodyEmpty ->
         [ok |-> TRUE, value |-> [tag |-> "object"]]
    [] OTHER ->
         [ok |-> FALSE,
          error |-> [tag |-> "error", name |-> "SyntaxError",
                     message |-> "Unexpected end of JSON input"]]

\* new Error(`API error: ${response.status} ${response.statusText}`)
ApiError(response) ==
  [tag |-> "error", name |-> "Error", message |-> "API error",
   status |-> response.status, statusText |-> response.statusText]

IdleCall ==
  [pc |-> "idle", fetches |-> 0, transport |-> "none", request |-> JSNull,
   body |-> "", result |-> JSNull, error |-> JSNull]

SvcInit ==
  /\ performanceMetrics = [dataProcessingLatency |-> <<>>,
                           uiUpdateLatency |-> <<>>,
                           endToEndLatency |-> <<>>]
  /\ calls = [c \in CallIds |-> IdleCall]
  /\ sampleOwner = [dataProcessingLatency |-> <<>>, endToEndLatency |-> <<>>]

(* JavaScript runs each synchronous stretch of code to its end: while a    *)
(* call stands between building its request and dispatching it, or while   *)
(* the code that called getAverageMetrics still holds the object it got,   *)
(* nothing else runs.                                                      *)
NoCallRunning ==
  /\ \A c \in CallIds : calls[c].pc # "built"
  /\ averagesRead.tag = "null"

\* Faulty variant of lines 67-80: the build duration is not recorded.
BuildRequest_NoSample(c, input, d) ==
  /\ calls' = [calls EXCEPT ![c].pc = "built",
                            ![c].request = [orderbook |-> input[1],
                                            parameters |-> input[2]]]
  /\ UNCHANGED <<performanceMetrics, sampleOwner>>

\* Lines 67-80: build the request and record the build duration d.  The
\* request's clientTimestamp (Date.now()) is read by no later step and is
\* left out.
BuildRequest(c, input, d) ==
  /\ calls' = [calls EXCEPT ![c].pc = "built",
                            ![c].request = [orderbook |-> input[1],
                                            parameters |-> input[2]]]
  /\ performanceMetrics' =
       [performanceMetrics EXCEPT
          !.dataProcessingLatency = Append(@, d)]
  /\ sampleOwner' = [sampleOwner EXCEPT !.dataProcessingLatency = Append(@, c)]

\* Faulty variant of lines 108-111: the failed request is sent once more.
CatchAndRethrow_Retries(c, error, transport) ==
  /\ calls' = [calls EXCEPT ![c].pc = "awaitFetch",
                            ![c].fetches = @ + 1,
                            ![c].transport = transport]
  /\ UNCHANGED <<performanceMetrics, sampleOwner>>

\* Faulty variant of lines 108-111: the error is logged and swallowed.
CatchAndRethrow_Swallow(c, error, transport) ==
  /\ calls' = [calls EXCEPT ![c].pc = "returned",
                            ![c].transport = transport]
  /\ UNCHANGED <<performanceMetrics, sampleOwner>>

\* Lines 108-111: log the error and throw it again, as caught.  transport
\* notes which failure of the remote call led here.
CatchAndRethrow(c, error, transport) ==
  /\ calls' = [calls EXCEPT ![c].pc = "threw",
                            ![c].error = error,
                            ![c].transport = transport]
  /\ UNCHANGED <<performanceMetrics, sampleOwner>>

\* Faulty variant of lines 95-99: the end-to-end latency is recorded as
\* soon as the response arrives, before its body is parsed.
AwaitJson_RecordsEarly(c, response, d) ==
  /\ calls' = [calls EXCEPT ![c].pc = "awaitJson",
                            ![c].body = response.body]
  /\ performanceMetrics' =
       [performanceMetrics EXCEPT !.endToEndLatency = Append(@, d)]
  /\ sampleOwner' = [sampleOwner EXCEPT !.endToEndLatency = Append(@, c)]

\* Lines 95-99 for a response with ok: go on to await response.json().
\* d is the time elapsed since dispatch, which this step does not record.
AwaitJson(c, response, d) ==
  /\ calls' = [calls EXCEPT ![c].pc = "awaitJson",
                            ![c].body = response.body]
  /\ UNCHANGED <<performanceMetrics, sampleOwner>>

\* Faulty variant of lines 101-107: the result is returned and no
\* end-to-end latency is recorded.
RecordAndReturn_NoSample(c, result, d) ==
  /\ calls' = [calls EXCEPT ![c].pc = "returned",
                            ![c].result = result,
                            ![c].transport = "ok"]
  /\ UNCHANGED <<performanceMetrics, sampleOwner>>

\* Lines 101-107: record the end-to-end latency and return the result.
RecordAndReturn(c, result, d) ==
  /\ performanceMetrics' =
       [performanceMetrics EXCEPT !.endToEndLatency = Append(@, d)]
  /\ sampleOwner' = [sampleOwner EXCEPT !.endToEndLatency = Append(@, c)]
  /\ calls' = [calls EXCEPT ![c].pc = "returned",
                            ![c].result = result,
                            ![c].transport = "ok"]

\* runSimulation is invoked: lines 63-80.  Calls are numbered in the order
\* they are made.
RunSimulation(c) ==
  /\ NoCallRunning
  /\ calls[c].pc = "idle"
  /\ \A b \in CallIds : b < c => calls[b].pc # "idle"
  /\ \E input \in SimulationInputs, d \in Durations : BuildRequest(c, input, d)
  /\ UNCHANGED <<feedVars, simVars, callerVars, formVars>>

\* Faulty variant of lines 83-93: dispatching a request abandons every
\* request that is still awaited (at most one call in flight).
Dispatch_Supersedes(c) ==
  /\ calls[c].pc = "built"
  /\ calls' = [b \in CallIds |->
                IF b = c
                  THEN [calls[b] EXCEPT !.pc = "awaitFetch", !.fetches = @ + 1]
                  ELSE IF calls[b].pc \in {"awaitFetch", "awaitJson"}
                         THEN [calls[b] EXCEPT !.pc = "threw",
                                               !.transport = "fault"]
                         ELSE calls[b]]
  /\ UNCHANGED <<performanceMetrics, sampleOwner>>
  /\ UNCHANGED <<feedVars, simVars, callerVars, formVars>>

\* Lines 83-93: dispatch the request with fetch and suspend.
Dispatch(c) ==
  /\ calls[c].pc = "built"
  /\ calls' = [calls EXCEPT ![c].pc = "awaitFetch", ![c].fetches = @ + 1]
  /\ UNCHANGED <<performanceMetrics, sampleOwner>>
  /\ UNCHANGED <<feedVars, simVars, callerVars, formVars>>

\* fetch resolves with a response: lines 95-99.
FetchResolves(c) ==
  /\ NoCallRunning
  /\ calls[c].pc = "awaitFetch"
  /\ \E response \in FetchResponses, d \in Durations :
       IF response.ok
         THEN AwaitJson(c, response, d)
         ELSE CatchAndRethrow(c, ApiError(response), "status")
  /\ UNCHANGED <<feedVars, simVars, callerVars, formVars>>

\* fetch rejects with a network fault: lines 108-111.
FetchRejects(c) ==
  /\ NoCallRunning
  /\ calls[c].pc = "awaitFetch"
  /\ \E fault \in FetchFaults : CatchAndRethrow(c, fault, "fault")
  /\ UNCHANGED <<feedVars, simVars, callerVars, formVars>>

\* response.json() settles: lines 99-111.
JsonSettles(c) ==
  /\ NoCallRunning
  /\ calls[c].pc = "awaitJson"
  /\ LET parsed == ResponseJson(calls[c].body) IN
       IF parsed.ok
         THEN \E d \in Durations : RecordAndReturn(c, parsed.value, d)
         ELSE CatchAndRethrow(c, parsed.error, "body")
  /\ UNCHANGED <<feedVars, simVars, callerVars, formVars>>

\* recordUIUpdateLatency: lines 117-119.
RecordUIUpdateLatency ==
  /\ NoCallRunning
  /\ Len(performanceMetrics.uiUpdateLatency) < MaxUISamples
  /\ \E latency \in UILatencies :
       performanceMetrics' =
         [performanceMetrics EXCEPT !.uiUpdateLatency = Append(@, latency)]
  /\ UNCHANGED <<calls, sampleOwner>>
  /\ UNCHANGED <<feedVars, simVars, callerVars, formVars>>

(* ------------------ readers of the SimulationService ------------------- *)
\* arr.reduce((sum, val) => sum + val, 0), from index i on.
RECURSIVE ReduceSum(_, _, _)
ReduceSum(arr, i, sum) ==
  IF i > Len(arr) THEN sum ELSE ReduceSum(arr, i + 1, sum + arr[i])

\* Faulty variant of lines 132-135: no guard for the empty array, so the
\* division is 0 / 0.
calculateAverage_NoEmptyGuard(arr) ==
  IF Len(arr) = 0 THEN NaN ELSE Finite(ReduceSum(arr, 1, 0), Len(arr))

\* Lines 132-135: 0 for the empty array, else the sum over the length.
calculateAverage(arr) ==
  IF Len(arr) = 0 THEN Finite(0, 1) ELSE Finite(ReduceSum(arr, 1, 0), Len(arr))

\* Faulty variant of lines 137-147: the newest end-to-end sample is not
\* seen by the read.
getAverageMetrics_MissesNewest(metrics) ==
  [tag |-> "object",
   avgDataProcessingLatency |-> calculateAverage(metrics.dataProcessingLatency),
   avgUIUpdateLatency       |-> calculateAverage(metrics.uiUpdateLatency),
   avgEndToEndLatency       |->
     calculateAverage(SubSeq(metrics.endToEndLatency, 1,
                             Len(metrics.endToEndLatency) - 1))]

\* Lines 137-147: the object of the three averages.
getAverageMetrics(metrics) ==
  [tag |-> "object",
   avgDataProcessingLatency |-> calculateAverage(metrics.dataProcessingLatency),
   avgUIUpdateLatency       |-> calculateAverage(metrics.uiUpdateLatency),
   avgEndToEndLatency       |-> calculateAverage(metrics.endToEndLatency)]

\* Lines 124-126: the method returns this.performanceMetrics itself, so the
\* caller receives a reference to the object the service appends to.
getPerformanceMetrics ==
  [tag |-> "reference", to |-> "performanceMetrics"]

CallerInit ==
  /\ averagesRead = JSNull
  /\ metricsRead = JSNull

\* A caller invokes getAverageMetrics (lines 131-148) between two tasks of
\* the event loop.
GetAverageMetrics ==
  /\ NoCallRunning
  /\ averagesRead' = getAverageMetrics(performanceMetrics)
  /\ UNCHANGED <<metricsRead, svcVars, feedVars, simVars, formVars>>

\* The code that called getAverageMetrics runs to its end; the object it
\* was given goes out of scope.
ReaderReturns ==
  /\ averagesRead.tag # "null"
  /\ averagesRead' = JSNull
  /\ UNCHANGED <<metricsRead, svcVars, feedVars, simVars, formVars>>

\* A caller invokes getPerformanceMetrics (lines 124-126).
GetPerformanceMetrics ==
  /\ NoCallRunning
  /\ metricsRead' = getPerformanceMetrics
  /\ UNCHANGED <<averagesRead, svcVars, feedVars, simVars, formVars>>

MetricKinds == {"dataProcessingLatency", "uiUpdateLatency", "endToEndLatency"}

\* A caller that holds the object getPerformanceMetrics returned uses it as
\* what it is, an object of three arrays: metrics[kind].pop() on the
\* reference removes the newest sample of the service's own array.
CallerPopsSample ==
  /\ NoCallRunning
  /\ metricsRead.tag = "reference"
  /\ \E kind \in MetricKinds :
       /\ performanceMetrics[kind] # <<>>
       /\ performanceMetrics' =
            [performanceMetrics EXCEPT ![kind] = SubSeq(@, 1, Len(@) - 1)]
       /\ sampleOwner' =
            IF kind \in DOMAIN sampleOwner
              THEN [sampleOwner EXCEPT ![kind] = SubSeq(@, 1, Len(@) - 1)]
              ELSE sampleOwner
  /\ UNCHANGED <<calls, callerVars, feedVars, simVars, formVars>>

(* ----------------------- TradeParametersForm --------------------------- *)
\* The options of the three selects and the numbers typed as order size.
FormAssets == {"BTC-USDT-SWAP", "ETH-USDT-SWAP", "SOL-USDT-SWAP"}
FormOrderSizes == {0, 1, 2}
FormFeeTiers == {"vip", "standard", "basic"}
FormStrategies == {"market", "limit", "twap", "vwap"}

FormValueSet ==
  {[tag |-> "object", asset |-> a, orderSize |-> n, feeTier |-> f,
    executionStrategy |-> e] :
     a \in FormAssets, n \in FormOrderSizes, f \in FormFeeTiers,
     e \in FormStrategies}

\* defaultValues of useForm.
FormDefaults ==
  [tag |-> "object", asset |-> "BTC-USDT-SWAP", orderSize |-> 1,
   feeTier |-> "standard", executionStrategy |-> "market"]

\* formSchema: the selects always hold a non-empty string; the order size
\* has to be positive.
FormSchemaAccepts(values) == values.orderSize > 0

\* The props Home renders the form with.
HomeFormProps ==
  [onSubmit |-> "handleRunSimulation", isLoading |-> "isLoading"]

\* The destructured prop with its default: the function the form calls is
\* props.onRunSimulation, or the empty function when that prop is absent.
onRunSimulation(props) ==
  IF "onRunSimulation" \in DOMAIN props THEN props.onRunSimulation ELSE "noop"

FormInit ==
  /\ formValues = FormDefaults
  /\ formIsLoading = FALSE
  /\ formPending = <<>>

\* A continuation that awaits a value that is no promise resumes as a
\* microtask, before the browser handles any further user event.
NoMicrotaskPending ==
  \A i \in DOMAIN formPending : formPending[i].awaits # "nothing"

\* The user changes the fields.
FormEdit ==
  /\ NoMicrotaskPending
  /\ \E values \in FormValueSet :
       /\ values # formValues
       /\ formValues' = values
  /\ UNCHANGED <<formIsLoading, formPending>>
  /\ UNCHANGED <<feedVars, simVars, svcVars, callerVars>>

\* The user presses the submit button, which is disabled while the form's
\* isLoading is true; form.handleSubmit validates and calls handleSubmit,
\* which runs up to its await: setIsLoading(true) and the call of
\* onRunSimulation(values).
FormSubmit ==
  /\ NoMicrotaskPending
  /\ ~formIsLoading
  /\ FormSchemaAccepts(formValues)
  /\ formIsLoading' = TRUE
  /\ IF onRunSimulation(HomeFormProps) = "handleRunSimulation"
       THEN /\ pendingRuns' = Append(pendingRuns,
                                [parameters |-> formValues,
                                 resultAtStart |-> simulationResult,
                                 finishedAtStart |-> Len(finishedRuns)])
            /\ isLoading' = TRUE
            /\ UNCHANGED <<simulationResult, finishedRuns>>
            /\ formPending' = Append(formPending,
                                [values |-> formValues, awaits |-> "run",
                                 run |-> Len(finishedRuns) + Len(pendingRuns) + 1])
       ELSE /\ UNCHANGED simVars
            /\ formPending' = Append(formPending,
                                [values |-> formValues, awaits |-> "nothing",
                                 run |-> 0])
  /\ UNCHANGED formValues
  /\ UNCHANGED <<feedVars, svcVars, callerVars>>

\* handleSubmit resumes after its await: finally setIsLoading(false).
FormSubmitResume ==
  /\ formPending # <<>>
  /\ \/ Head(formPending).awaits = "nothing"
     \/ Len(finishedRuns) >= Head(formPending).run
  /\ formPending' = Tail(formPending)
  /\ formIsLoading' = FALSE
  /\ UNCHANGED formValues
  /\ UNCHANGED <<feedVars, simVars, svcVars, callerVars>>

(* --------------------------- specifications ---------------------------- *)
Init ==
  /\ FeedInit
  /\ SimInit
  /\ SvcInit
  /\ CallerInit
  /\ FormInit

\* The order-book feed of the Home component.
Next ==
  \/ WsOpen
  \/ WsMessage
  \/ WsServerClosing
  \/ WsError
  \/ WsClose
  \/ Unmount

Spec == Init /\ [][Next]_vars

\* The simulation handler of the Home component.
NextSim ==
  \/ HandleRunSimulationStart
  \/ HandleRunSimulationResume

SpecSim == Init /\ [][NextSim]_vars

\* The SimulationService.
NextSvc ==
  \/ \E c \in CallIds : RunSimulation(c)
  \/ \E c \in CallIds : Dispatch(c)
  \/ \E c \in CallIds : FetchResolves(c)
  \/ \E c \in CallIds : FetchRejects(c)
  \/ \E c \in CallIds : JsonSettles(c)
  \/ RecordUIUpdateLatency

SpecSvc == Init /\ [][NextSvc]_vars

\* The SimulationService together with a caller that reads the averages.
NextRead ==
  \/ \E c \in CallIds : RunSimulation(c)
  \/ \E c \in CallIds : Dispatch(c)
  \/ \E c \in CallIds : FetchResolves(c)
  \/ \E c \in CallIds : FetchRejects(c)
  \/ \E c \in CallIds : JsonSettles(c)
  \/ RecordUIUpdateLatency
  \/ GetAverageMetrics
  \/ ReaderReturns

SpecRead == Init /\ [][NextRead]_vars

\* The SimulationService together with a caller of all its readers.
NextOwner ==
  \/ \E c \in CallIds : RunSimulation(c)
  \/ \E c \in CallIds : Dispatch(c)
  \/ \E c \in CallIds : FetchResolves(c)
  \/ \E c \in CallIds : FetchRejects(c)
  \/ \E c \in CallIds : JsonSettles(c)
  \/ RecordUIUpdateLatency
  \/ GetAverageMetrics
  \/ ReaderReturns
  \/ GetPerformanceMetrics
  \/ CallerPopsSample

SpecOwner == Init /\ [][NextOwner]_vars

(* calculateAverage on its own: the service holds sample arrays left by    *)
(* calls that settled earlier (owner 0), and a caller reads the averages.  *)
SampleValues == {10, 20, 30}

RECURSIVE SeqsUpTo(_)
SeqsUpTo(n) ==
  IF n = 0 THEN {<<>>}
  ELSE LET shorter == SeqsUpTo(n - 1) IN
         shorter \cup {Append(q, v) : q \in shorter, v \in SampleValues}

InitAvg ==
  /\ FeedInit
  /\ SimInit
  /\ CallerInit
  /\ FormInit
  /\ \E dp \in SeqsUpTo(MaxSamples), e2e \in SeqsUpTo(MaxSamples),
        ui \in SeqsUpTo(MaxUISamples) :
       /\ Len(e2e) <= Len(dp)
       /\ performanceMetrics = [dataProcessingLatency |-> dp,
                                uiUpdateLatency |-> ui,
                                endToEndLatency |-> e2e]
       /\ sampleOwner = [dataProcessingLatency |-> [i \in 1..Len(dp) |-> 0],
                         endToEndLatency |-> [i \in 1..Len(e2e) |-> 0]]
  /\ calls = [c \in CallIds |-> IdleCall]

NextAvg ==
  \/ GetAverageMetrics

SpecAvg == InitAvg /\ [][NextAvg]_vars

\* The TradeParametersForm as Home renders it.
NextForm ==
  \/ FormEdit
  \/ FormSubmit
  \/ FormSubmitResume

SpecForm == Init /\ [][NextForm]_vars

(* ======================= properties of the feed ======================== *)

Rank(st) ==
  CASE st = "CONNECTING" -> 0
    [] st = "OPEN" -> 1
    [] st = "CLOSING" -> 2
    [] st = "CLOSED" -> 3

\* The step delivers the message text to ws.onmessage.
Delivers(text) == delivered' = Append(delivered, text)

(* C1: an unparsable message publishes nothing, leaves the current         *)
(* snapshot, the subscription and the connected flag as they were; every   *)
(* parsable message publishes exactly one snapshot; one bad message        *)
(* between two valid ones yields exactly two published snapshots with the  *)
(* subscription still open.                                                *)
C1_BadMessageDropped ==
  /\ [][\A text \in Texts : Delivers(text) =>
          IF JSONparse(text).ok
            THEN Len(published') = Len(published) + 1
            ELSE /\ published' = published
                 /\ orderbookData' = orderbookData
                 /\ wsState' = wsState
                 /\ isConnected' = isConnected
                 /\ closeCalls' = closeCalls
                 /\ wsCount' = wsCount]_vars
  /\ []((/\ Len(delivered) = 3
         /\ JSONparse(delivered[1]).ok
         /\ ~JSONparse(delivered[2]).ok
         /\ JSONparse(delivered[3]).ok)
        => Len(published) = 2)

C1_Witness ==
  /\ Len(delivered) = 3
  /\ delivered[1] = TextPairs
  /\ delivered[2] = TextTruncated
  /\ delivered[3] = TextEntries
  /\ Len(published) = 2
  /\ orderbookData = JSONparse(TextEntries).value
  /\ wsState = "OPEN"
  /\ isConnected

(* C6: the connected flag is false while connecting and turns true in      *)
(* exactly the steps in which the subscription enters OPEN; readyState     *)
(* never moves backwards and never re-enters OPEN; messages are handled    *)
(* only while the subscription is open.                                    *)
C6_ConnectedOnOpen ==
  /\ [](wsState = "CONNECTING" => ~isConnected)
  /\ [][(wsState # "OPEN" /\ wsState' = "OPEN")
          <=> (~isConnected /\ isConnected')]_vars
  /\ [][Rank(wsState') >= Rank(wsState)]_vars
  /\ [][wsState' = "OPEN" => wsState \in {"CONNECTING", "OPEN"}]_vars
  /\ [][delivered' # delivered => (wsState = "OPEN" /\ wsState' = "OPEN")]_vars

C6_Witness ==
  /\ wsState = "OPEN"
  /\ isConnected
  /\ Len(delivered) = 1

(* C7: once the subscription is CLOSED the flag is false, and from then on *)
(* the subscription stays CLOSED, the flag stays false and no further      *)
(* socket is constructed.                                                  *)
C7_NoReconnect ==
  /\ [](wsState = "CLOSED" => ~isConnected)
  /\ [](wsCount = 1)
  /\ [][wsState = "CLOSED" =>
          (wsState' = "CLOSED" /\ ~isConnected' /\ wsCount' = wsCount)]_vars

C7_Witness ==
  /\ wsState = "CLOSED"
  /\ mounted
  /\ ~isConnected
  /\ Len(published) >= 1

(* C8: teardown issues ws.close() exactly once whatever readyState the     *)
(* socket is in; before teardown no close has been issued.                 *)
C8_CloseExactlyOnce ==
  /\ mounted => closeCalls = 0
  /\ ~mounted => (closeCalls = 1 /\ teardownFrom \in
                    {"CONNECTING", "OPEN", "CLOSING", "CLOSED"})

C8_Witness ==
  /\ ~mounted
  /\ teardownFrom = "CLOSED"
  /\ closeCalls = 1

\* The snapshots JSON.parse yields for the parsable texts of a sequence,
\* in the order of the sequence.
RECURSIVE ValidSnapshots(_)
ValidSnapshots(texts) ==
  IF texts = <<>> THEN <<>>
  ELSE LET rest == ValidSnapshots(Tail(texts))
           head == JSONparse(Head(texts))
       IN IF head.ok THEN <<head.value>> \o rest ELSE rest

(* C9: the published snapshots are exactly the parsable delivered          *)
(* messages, in delivery order, one per message, each the value of that    *)
(* message alone, and the current snapshot is the last one published.      *)
C9_InOrderNoCoalescing ==
  /\ published = ValidSnapshots(delivered)
  /\ orderbookData = IF published = <<>> THEN JSNull
                     ELSE published[Len(published)]

C9_Witness ==
  /\ delivered = <<TextEntries, TextEntries, TextPairs>>
  /\ Len(published) = 3
  /\ published[1] = published[2]
  /\ published[2] # published[3]

\* The levels of one side of a published value (none when it has no such
\* property).
Side(v, name) == IF name \in DOMAIN v THEN v[name] ELSE <<>>

\* The size of a level, in either shape.
LevelSize(l) == IF "size" \in DOMAIN l THEN l.size ELSE l.i1

RECURSIVE SumSizes(_, _)
SumSizes(levels, i) ==
  IF i = 0 THEN 0 ELSE SumSizes(levels, i - 1) + LevelSize(levels[i])

CumulativeOk(levels) ==
  \A i \in DOMAIN levels :
    /\ "total" \in DOMAIN levels[i]
    /\ levels[i].total = SumSizes(levels, i)

(* C10: every published snapshot carries, on each side, a cumulative size  *)
(* at level i equal to the sum of the sizes of levels 0..i.                *)
C10_CumulativeTotals ==
  \A k \in DOMAIN published :
    /\ CumulativeOk(Side(published[k], "bids"))
    /\ CumulativeOk(Side(published[k], "asks"))

(* ================= properties of handleRunSimulation =================== *)

\* The step in which an invocation ends in the catch block.
RunFails ==
  /\ Len(finishedRuns') = Len(finishedRuns) + 1
  /\ finishedRuns'[Len(finishedRuns')].outcome = "failed"

RECURSIVE CountOwned(_, _)
CountOwned(owners, c) ==
  IF owners = <<>> THEN 0
  ELSE (IF Head(owners) = c THEN 1 ELSE 0) + CountOwned(Tail(owners), c)

\* The error a call must end with, given what the transport did to it.
IsExpectedError(error, transport) ==
  CASE transport = "status" -> error.tag = "error" /\ error.name = "Error"
                               /\ error.message = "API error"
                               /\ error.status \in {404, 500}
    [] transport = "fault"  -> error \in FetchFaults
    [] transport = "body"   -> error = ResponseJson(BodyTruncated).error
    [] OTHER -> FALSE

(* C2: a runSimulation call whose transport failed (non-success status,    *)
(* network fault, malformed body) has appended no endToEndLatency sample   *)
(* and has ended by throwing: an Error for the status, the fault itself    *)
(* otherwise; no step that ends a call in failure touches the array.       *)
C2_FailureRecordsNothingAndPropagates ==
  /\ [](\A c \in CallIds :
          calls[c].transport \in {"status", "fault", "body"} =>
            /\ calls[c].pc = "threw"
            /\ IsExpectedError(calls[c].error, calls[c].transport)
            /\ CountOwned(sampleOwner.endToEndLatency, c) = 0)
  /\ [][\A c \in CallIds :
          (calls[c].pc # "threw" /\ calls'[c].pc = "threw") =>
            performanceMetrics'.endToEndLatency
              = performanceMetrics.endToEndLatency]_vars

C2_Witness ==
  /\ calls[1].transport = "body"
  /\ calls[1].pc = "threw"
  /\ calls[2].transport = "status"
  /\ calls[2].pc = "threw"
  /\ calls[2].error.status = 500
  /\ performanceMetrics.endToEndLatency = <<>>
  /\ Len(performanceMetrics.dataProcessingLatency) = 2

(* C4: a runSimulation call that succeeded has appended exactly one        *)
(* endToEndLatency sample and returned the parsed body of its response;    *)
(* the array grows only by one sample, in the step in which a call passes  *)
(* from awaiting response.json() to returned.                              *)
C4_SuccessRecordsOneSampleAfterParse ==
  /\ [](\A c \in CallIds :
          calls[c].pc = "returned" =>
            /\ CountOwned(sampleOwner.endToEndLatency, c) = 1
            /\ ResponseJson(calls[c].body).ok
            /\ calls[c].result = ResponseJson(calls[c].body).value)
  /\ [](Len(performanceMetrics.endToEndLatency)
          = Len(sampleOwner.endToEndLatency))
  /\ [][performanceMetrics'.endToEndLatency # performanceMetrics.endToEndLatency
          => \E c \in CallIds, d \in Durations :
               /\ calls[c].pc = "awaitJson"
               /\ calls'[c].pc = "returned"
               /\ performanceMetrics'.endToEndLatency
                    = Append(performanceMetrics.endToEndLatency, d)]_vars

C4_Witness ==
  /\ calls[1].pc = "returned"
  /\ calls[1].result = ResponseJson(BodyResult).value
  /\ calls[2].pc = "threw"
  /\ Len(performanceMetrics.endToEndLatency) = 1
  /\ sampleOwner.endToEndLatency = <<1>>

(* C5: every runSimulation call appends exactly one dataProcessingLatency  *)
(* sample, and has done so before its request is dispatched, whether the   *)
(* remote call then succeeds, fails or never answers.                      *)
C5_OneBuildSampleBeforeDispatch ==
  /\ [](\A c \in CallIds :
          CountOwned(sampleOwner.dataProcessingLatency, c)
            = IF calls[c].pc = "idle" THEN 0 ELSE 1)
  /\ [](Len(performanceMetrics.dataProcessingLatency)
          = Len(sampleOwner.dataProcessingLatency))
  /\ [][\A c \in CallIds :
          calls'[c].fetches > calls[c].fetches =>
            /\ CountOwned(sampleOwner.dataProcessingLatency, c) = 1
            /\ performanceMetrics'.dataProcessingLatency
                 = performanceMetrics.dataProcessingLatency]_vars

C5_Witness ==
  /\ calls[1].pc = "awaitFetch"
  /\ calls[1].fetches = 1
  /\ calls[2].pc = "threw"
  /\ sampleOwner.dataProcessingLatency = <<1, 2>>
  /\ performanceMetrics.endToEndLatency = <<>>

(* ================= properties of the depth display ===================== *)

BothSidesNonEmpty(v) ==
  /\ IsArrayProp(v, "bids") /\ IsArrayProp(v, "asks")
  /\ Len(v.bids) > 0 /\ Len(v.asks) > 0

HasEmptySide(v) ==
  \/ (IsArrayProp(v, "bids") /\ Len(v.bids) = 0)
  \/ (IsArrayProp(v, "asks") /\ Len(v.asks) = 0)

InPercentRange(w) ==
  w.kind = "finite" /\ 0 <= w.num /\ w.num <= 100 * w.den

IsHundred(w) == w.kind = "finite" /\ w.num = 100 * w.den

(* C11: for every published snapshot with both sides non-empty, every      *)
(* level's percentage of the maximum total lies in [0,100] and at least    *)
(* one level has exactly 100.                                              *)
C11_PercentagesBounded ==
  \A k \in DOMAIN published :
    BothSidesNonEmpty(published[k]) =>
      LET widths == BarWidths(published[k]) IN
        /\ \A i \in DOMAIN widths : InPercentRange(widths[i])
        /\ \E i \in DOMAIN widths : IsHundred(widths[i])

\* The price of a level, in either shape.
LevelPrice(l) == IF "price" \in DOMAIN l THEN l.price ELSE l.i0

(* C12: every published snapshot carries spread = best ask - best bid and  *)
(* spreadPercentage = spread / best bid * 100, taken from the first bid    *)
(* and the first ask of its message.                                       *)
C12_SpreadIdentity ==
  \A k \in DOMAIN published :
    BothSidesNonEmpty(published[k]) =>
      LET v == published[k]
          bestBid == LevelPrice(v.bids[1])
          bestAsk == LevelPrice(v.asks[1])
      IN /\ "spread" \in DOMAIN v
         /\ "spreadPercentage" \in DOMAIN v
         /\ v.spread = bestAsk - bestBid
         /\ v.spreadPercentage * bestBid = v.spread * 100

(* C13: a message with an empty bid or ask side yields no published        *)
(* snapshot, and no depth bar of a published snapshot is a division by     *)
(* zero.                                                                   *)
C13_EmptySideFailsClosed ==
  \A k \in DOMAIN published :
    /\ ~HasEmptySide(published[k])
    /\ BarWidths(published[k]) # <<>> => maxTotal(published[k]) # Finite(0, 1)

(* ================= properties of the service readers =================== *)
RECURSIVE SumOf(_)
SumOf(arr) == IF arr = <<>> THEN 0 ELSE Head(arr) + SumOf(Tail(arr))

\* avg is a number whose value is sum / count.
IsQuotient(avg, sum, count) ==
  avg.kind = "finite" /\ avg.den # 0 /\ avg.num * count = sum * avg.den

\* avg is what the averages report for the samples arr.
IsMeanOf(avg, arr) ==
  IF arr = <<>> THEN avg = Finite(0, 1)
  ELSE IsQuotient(avg, SumOf(arr), Len(arr))

AveragesOf(read, metrics) ==
  /\ read.tag = "object"
  /\ IsMeanOf(read.avgDataProcessingLatency, metrics.dataProcessingLatency)
  /\ IsMeanOf(read.avgUIUpdateLatency, metrics.uiUpdateLatency)
  /\ IsMeanOf(read.avgEndToEndLatency, metrics.endToEndLatency)

\* C14: each average getAverageMetrics returns is the arithmetic mean of the
\* samples of its kind (their sum divided by their count), it is 0 for a
\* kind without samples, and the samples 10, 20, 30 give 20.
C14_AverageIsMean ==
  averagesRead # JSNull =>
    /\ AveragesOf(averagesRead, performanceMetrics)
    /\ performanceMetrics.dataProcessingLatency = <<>>
         => averagesRead.avgDataProcessingLatency = Finite(0, 1)
    /\ performanceMetrics.dataProcessingLatency = <<10, 20, 30>>
         => IsQuotient(averagesRead.avgDataProcessingLatency, 20, 1)

\* The averages were read for 10, 20, 30 next to a kind without samples.
C14_Witness ==
  /\ averagesRead # JSNull
  /\ performanceMetrics.dataProcessingLatency = <<10, 20, 30>>
  /\ performanceMetrics.endToEndLatency = <<>>
  /\ IsQuotient(averagesRead.avgDataProcessingLatency, 20, 1)
  /\ averagesRead.avgEndToEndLatency = Finite(0, 1)

IsPrefix(a, b) == Len(a) <= Len(b) /\ SubSeq(b, 1, Len(a)) = a

\* C15: the three sample arrays are append-only and owned by the service
\* alone: in every step the earlier contents of each array are a prefix of
\* its later contents, and no operation leaves a caller holding a reference
\* to the arrays themselves.
C15_AppendOnlyExclusivelyOwned ==
  [][/\ \A kind \in MetricKinds :
          IsPrefix(performanceMetrics[kind], performanceMetrics'[kind])
     /\ metricsRead'.tag # "reference"]_vars

InFlight(c) == calls[c].pc \in {"awaitFetch", "awaitJson"}

\* C16: a read of the averages, wherever it falls between the steps of
\* runSimulation calls in flight and recordUIUpdateLatency calls, returns
\* three averages that are all those of the samples the arrays held when
\* the read began; the read happens in no half-done synchronous stretch and
\* changes no array.
C16_ReadReflectsSamplesBefore ==
  [][averagesRead'.tag # "null" =>
       /\ AveragesOf(averagesRead', performanceMetrics)
       /\ performanceMetrics' = performanceMetrics
       /\ \A c \in CallIds : calls[c].pc # "built"]_vars

\* The averages were read while every call made so far was still in
\* flight, after a build sample and a UI sample had been appended.
C16_Witness ==
  /\ averagesRead # JSNull
  /\ \E c \in CallIds : InFlight(c)
  /\ \A c \in CallIds : calls[c].pc = "idle" \/ InFlight(c)
  /\ performanceMetrics.uiUpdateLatency # <<>>
  /\ averagesRead.avgDataProcessingLatency # Finite(0, 1)
  /\ averagesRead.avgUIUpdateLatency # Finite(0, 1)
  /\ averagesRead.avgEndToEndLatency = Finite(0, 1)

\* C17: runSimulation calls in flight together do not touch each other.
\* A call that awaits its response can always be answered, whatever the
\* other calls do (no call blocks another); a step that moves one call
\* leaves every other call as it was (none is cancelled or superseded);
\* each call dispatches one request of its own; and what a call ends with
\* is decided by its own response: the parsed body it received, with one
\* end-to-end sample of its own, or a failure with no sample.
C17_CallsIndependent ==
  /\ [](\A c \in CallIds :
         /\ (calls[c].pc = "awaitFetch" /\ NoCallRunning)
              => (ENABLED FetchResolves(c)) /\ (ENABLED FetchRejects(c))
         /\ (calls[c].pc = "awaitJson" /\ NoCallRunning)
              => ENABLED JsonSettles(c))
  /\ [][\A c \in CallIds :
          calls'[c] # calls[c] =>
            /\ \A b \in CallIds \ {c} : calls'[b] = calls[b]
            /\ calls'[c].pc = "awaitFetch" => calls'[c].fetches = 1
            /\ calls'[c].pc = "returned" =>
                 /\ calls'[c].result = ResponseJson(calls[c].body).value
                 /\ Len(performanceMetrics'.endToEndLatency)
                      = Len(performanceMetrics.endToEndLatency) + 1
                 /\ sampleOwner'.endToEndLatency
                      = Append(sampleOwner.endToEndLatency, c)
            /\ calls'[c].pc = "threw" =>
                 performanceMetrics' = performanceMetrics]_vars

\* Two calls were in flight together and the one made later returned its
\* result while the earlier one still awaits its response.
C17_Witness ==
  /\ calls[1].pc = "awaitFetch"
  /\ calls[2].pc = "returned"
  /\ calls[2].result = ResponseJson(BodyResult).value
  /\ sampleOwner.endToEndLatency = <<2>>
  /\ sampleOwner.dataProcessingLatency = <<1, 2>>

Dispatched(c) == calls[c].pc \in {"awaitFetch", "awaitJson", "returned", "threw"}

\* C18: runSimulation neither retries nor times out.  A call has sent no
\* request before its dispatch and exactly one from then on, also once it
\* has failed; and a call that awaits the remote service stops awaiting only
\* in a step in which the awaited fetch or body settles, so a call whose
\* remote call never settles neither returns nor throws.
C18_OneRequestNoTimeout ==
  /\ [](\A c \in CallIds :
         calls[c].fetches = IF Dispatched(c) THEN 1 ELSE 0)
  /\ [][\A c \in CallIds :
          /\ (calls[c].pc = "awaitFetch" /\ calls'[c].pc # "awaitFetch")
               => FetchResolves(c) \/ FetchRejects(c)
          /\ (calls[c].pc = "awaitJson" /\ calls'[c].pc # "awaitJson")
               => JsonSettles(c)
          /\ (calls'[c].pc \in {"returned", "threw"} /\ calls'[c] # calls[c])
               => calls[c].pc \in {"awaitFetch", "awaitJson"}]_vars

\* One call failed on the status of its response, having sent one request,
\* while the call made before it still awaits a response.
C18_Witness ==
  /\ calls[1].pc = "awaitFetch"
  /\ calls[1].fetches = 1
  /\ calls[2].pc = "threw"
  /\ calls[2].transport = "status"
  /\ calls[2].fetches = 1

(* ============ properties of the caller of the simulation =============== *)
StoredRuns == {i \in DOMAIN finishedRuns : finishedRuns[i].outcome = "stored"}

\* C19: the caller reports the UI-commit duration of every successful run:
\* once handleRunSimulation has run to its end for every run started, the
\* service holds one uiUpdateLatency sample for each run that stored a
\* result.
C19_EachStoredRunReported ==
  pendingRuns = <<>> =>
    Len(performanceMetrics.uiUpdateLatency) = Cardinality(StoredRuns)

(* ================= properties of TradeParametersForm =================== *)
\* C20: a submission of the form starts a simulation run and keeps the
\* submit control disabled until that run has completed: while a handleSubmit
\* invocation is under way, the run it started is pending in
\* handleRunSimulation, the control is disabled, and no second submission
\* is under way.
C20_SubmissionRunsGuarded ==
  formPending # <<>> =>
    /\ formIsLoading
    /\ Len(formPending) = 1
    /\ pendingRuns # <<>>

StartedCalls == {c \in CallIds : calls[c].pc # "idle"}

ReturnedCalls == {c \in CallIds : calls[c].pc = "returned"}

\* C22: in every reachable state of the service, however the calls
\* interleave, there are at most as many endToEndLatency samples as
\* dataProcessingLatency samples; there is one dataProcessingLatency sample
\* for each call started and one endToEndLatency sample for each call that
\* has returned a result.
C22_SampleCounts ==
  /\ Len(performanceMetrics.endToEndLatency)
       <= Len(performanceMetrics.dataProcessingLatency)
  /\ Len(performanceMetrics.dataProcessingLatency) = Cardinality(StartedCalls)
  /\ Len(performanceMetrics.endToEndLatency) = Cardinality(ReturnedCalls)

\* Two calls overlap: the later one has returned, the earlier one is still
\* parsing its response; two build samples, one end-to-end sample.
C22_Witness ==
  /\ calls[1].pc = "awaitJson"
  /\ calls[2].pc = "returned"
  /\ Len(performanceMetrics.dataProcessingLatency) = 2
  /\ Len(performanceMetrics.endToEndLatency) = 1

(* ================= properties of the connected flag ==================== *)
\* C23 as stated: whenever the connected flag is true the subscription is
\* OPEN.
C23_ConnectedImpliesOpen ==
  isConnected => wsState = "OPEN"

\* C23, amended: whenever the connected flag is true the subscription has
\* opened and no close event has been delivered yet, so it is OPEN or its
\* closing handshake is under way (CLOSING); the flag is never true while
\* the subscription is CONNECTING or CLOSED.
C23_ConnectedBetweenOpenAndClose ==
  /\ isConnected => wsState \in {"OPEN", "CLOSING"}
  /\ wsState \in {"CONNECTING", "CLOSED"} => ~isConnected

\* The mounted component shows the flag as true while the server's closing
\* handshake is under way.
C23_Witness ==
  /\ mounted
  /\ isConnected
  /\ wsState = "CLOSING"
  /\ closeCalls = 0

====
